---- MODULE Spec2Model ----
(***************************************************************************)
(* Gesture-Smart: the gesture classification state machine of              *)
(* gesture_recognizer.py (class GestureRecognizer), driven once per        *)
(* captured frame by the loop of main.py.                                  *)
(*                                                                         *)
(* A frame (hands_data) is a sequence of hands; a hand is a record with a  *)
(* 'landmarks' sequence of points <<x, y, z>>.  Python indexes from 0 and  *)
(* TLA+ from 1: At(seq, i) reads Python's seq[i].                          *)
(*                                                                         *)
(* A return value is a record: [gesture |-> "LEFT_CLICK"] stands for the   *)
(* string "LEFT_CLICK", the scroll dictionaries keep their two keys, and   *)
(* [raised |-> "IndexError"] is a call that ended with that exception.     *)
(***************************************************************************)
EXTENDS Integers, Sequences, FiniteSets

VARIABLES self, config, hands_data, ret, fingerStates, dragOpen, pinchRun,
          emptyRun, emptySnap, clickAge, clickGap, scrollAge, scrollGap

vars == <<self, config, hands_data, ret, fingerStates, dragOpen, pinchRun,
          emptyRun, emptySnap, clickAge, clickGap, scrollAge, scrollGap>>

(***************************************************************************)
(* config.py                                                               *)
(***************************************************************************)
PINCH_THRESHOLD == 35
SCROLL_SENSITIVITY == 20
ZOOM_SENSITIVITY == 25
DEBOUNCE_TIME == 10
DEBOUNCE_TIME_SHORT == 5
DEBOUNCE_TIME_LONG == 15

(***************************************************************************)
(* Bounds of the model                                                     *)
(***************************************************************************)
\* pinchRun counts up to MaxRun and then stays there ("MaxRun or more")
MaxRun == 12
\* a run of empty frames is followed for MaxEmptyRun calls, then a new run starts
MaxEmptyRun == 4

(***************************************************************************)
(* Helpers                                                                 *)
(***************************************************************************)
At(seq, i) == seq[i + 1]

Abs(n) == IF n < 0 THEN -n ELSE n

Min(a, b) == IF a < b THEN a ELSE b

Ev(name) == [gesture |-> name]

Scroll(dir) == [gesture |-> "SCROLL", direction |-> dir]

Raised(name) == [raised |-> name]

\* the name of the gesture a call returned ("" when it raised)
GestureOf(r) == IF "gesture" \in DOMAIN r THEN r.gesture ELSE ""

RECURSIVE SqrtBetween(_, _, _)
\* the largest r in lo..hi with r*r <= n, by bisection
SqrtBetween(n, lo, hi) ==
    IF lo >= hi THEN lo
    ELSE LET mid == (lo + hi + 1) \div 2
         IN  IF mid * mid <= n THEN SqrtBetween(n, mid, hi)
             ELSE SqrtBetween(n, lo, mid - 1)

Sqrt(n) == SqrtBetween(n, 0, n)

IsSquare(n) == Sqrt(n) * Sqrt(n) = n

\* utils.calculate_distance: np.linalg.norm(p1 - p2), the Euclidean norm over
\* all three coordinates.  The frames of the model are chosen so that every
\* distance the recognizer computes is a whole number (ExactHand).
SquaredDistance(p1, p2) ==
    (p1[1] - p2[1]) * (p1[1] - p2[1])
  + (p1[2] - p2[2]) * (p1[2] - p2[2])
  + (p1[3] - p2[3]) * (p1[3] - p2[3])

calculate_distance(p1, p2) == Sqrt(SquaredDistance(p1, p2))

(***************************************************************************)
(* GestureRecognizer.__init__                                              *)
(***************************************************************************)
InitSelf ==
    [ last_gesture                    |-> "NONE",
      drag_started                    |-> FALSE,
      last_hand_y                     |-> 0,
      last_zoom_dist                  |-> 0,
      click_debounce_counter          |-> 0,
      scroll_debounce_counter         |-> 0,
      zoom_debounce_counter           |-> 0,
      tab_switch_debounce_counter     |-> 0,
      desktop_switch_debounce_counter |-> 0 ]

(***************************************************************************)
(* GestureRecognizer._update_debounce_counters                             *)
(***************************************************************************)
\* mutant: the counter is decremented with no floor at 0
DecrementNoFloor(c) == c - 1

Decrement(c) == IF c > 0 THEN c - 1 ELSE c

\* mutant: the counters run down two frames per call
UpdateByTwo(s) ==
    [s EXCEPT !.click_debounce_counter          = Decrement(Decrement(@)),
              !.scroll_debounce_counter         = Decrement(Decrement(@)),
              !.zoom_debounce_counter           = Decrement(Decrement(@)),
              !.tab_switch_debounce_counter     = Decrement(Decrement(@)),
              !.desktop_switch_debounce_counter = Decrement(Decrement(@))]

update_debounce_counters(s) ==
    [s EXCEPT !.click_debounce_counter          = Decrement(@),
              !.scroll_debounce_counter         = Decrement(@),
              !.zoom_debounce_counter           = Decrement(@),
              !.tab_switch_debounce_counter     = Decrement(@),
              !.desktop_switch_debounce_counter = Decrement(@)]

(***************************************************************************)
(* GestureRecognizer._get_finger_states                                    *)
(***************************************************************************)
tip_ids == <<4, 8, 12, 16, 20>>
pip_ids == <<3, 6, 10, 14, 18>>

\* the landmark indices a single-hand call reads: _get_finger_states reads the
\* tips and joints, recognize reads 4, 8, 12 and the wrist 0
ReadIds == {At(tip_ids, i) : i \in 0..4} \cup {At(pip_ids, i) : i \in 0..4}
           \cup {At(tip_ids, 0) - 1, 0}

\* a list index out of range raises IndexError
IndexError(landmarks) == \E i \in ReadIds : i >= Len(landmarks)

\* mutant: the thumb is extended only when its tip is right of landmark 3
ThumbStateOneSided(landmarks) ==
    landmarks[5][1] > landmarks[4][1]

ThumbState(landmarks) ==
    IF At(At(landmarks, At(tip_ids, 0)), 0) > At(At(landmarks, At(pip_ids, 0)), 0)
    THEN At(At(landmarks, At(tip_ids, 0)), 0) > At(At(landmarks, At(tip_ids, 0) - 1), 0)
    ELSE At(At(landmarks, At(tip_ids, 0)), 0) < At(At(landmarks, At(tip_ids, 0) - 1), 0)

\* mutant: a tip level with its joint counts as extended
FingerStateNotStrict(landmarks, i) ==
    landmarks[tip_ids[i + 1] + 1][2] <= landmarks[pip_ids[i + 1] + 1][2]

FingerState(landmarks, i) ==
    At(At(landmarks, At(tip_ids, i)), 1) < At(At(landmarks, At(pip_ids, i)), 1)

get_finger_states(landmarks) ==
    [k \in 1..5 |-> IF k = 1 THEN ThumbState(landmarks)
                    ELSE FingerState(landmarks, k - 1)]

\* sum(finger_states)
Sum(states) == Cardinality({k \in 1..Len(states) : states[k]})

\* any(finger_states[from:])
AnyFrom(states, from) == \E k \in from..(Len(states) - 1) : At(states, k)

(***************************************************************************)
(* GestureRecognizer._recognize_two_hand_gestures                          *)
(* The centroids are computed and never used; the swipe detection is a     *)
(* placeholder (pass), and the method returns "NONE" on every path.        *)
(***************************************************************************)
\* mutant: the swipe detection is filled in and starts its cooldown
TwoHandsSwitchDesktops(s, hands) ==
    [self |-> [s EXCEPT !.desktop_switch_debounce_counter = DEBOUNCE_TIME_LONG],
     ret  |-> [gesture |-> "SWITCH_DESKTOPS", direction |-> "LEFT"]]

\* mutant: two hands end an open drag and reset the tracking state
TwoHandsResetTracking(s, hands) ==
    [self |-> [s EXCEPT !.drag_started = FALSE, !.last_hand_y = 0,
                        !.last_zoom_dist = 0],
     ret  |-> Ev("NONE")]

\* lines 149-165
recognize_two_hand_gestures(s, hands) ==
    [self |-> s, ret |-> Ev("NONE")]

(***************************************************************************)
(* GestureRecognizer.recognize.  Each operator gives the recognizer after  *)
(* the call and the value returned, [self |-> ..., ret |-> ...], from the  *)
(* recognizer s as it stands when the lines are reached.                   *)
(***************************************************************************)
\* mutant: the release on an empty frame forgets to clear the flag
NoHandsKeepsDrag(s) ==
    IF s.drag_started
    THEN [self |-> s, ret |-> Ev("RELEASE_HOLD")]
    ELSE [self |-> [s EXCEPT !.last_gesture = "NONE"], ret |-> Ev("NONE")]

\* mutant: an idle empty frame resets the tracking state
NoHandsResetsTracking(s) ==
    IF s.drag_started
    THEN [self |-> [s EXCEPT !.drag_started = FALSE], ret |-> Ev("RELEASE_HOLD")]
    ELSE [self |-> [s EXCEPT !.last_gesture = "NONE", !.last_hand_y = 0,
                             !.last_zoom_dist = 0],
          ret  |-> Ev("NONE")]

\* lines 69-74: no hands
NoHands(s) ==
    IF s.drag_started
    THEN [self |-> [s EXCEPT !.drag_started = FALSE], ret |-> Ev("RELEASE_HOLD")]
    ELSE [self |-> [s EXCEPT !.last_gesture = "NONE"], ret |-> Ev("NONE")]

\* mutant: a fist starts a drag whether or not one is open
ClosedFistAlwaysStarts(s) ==
    [self |-> [s EXCEPT !.drag_started = TRUE], ret |-> Ev("START_DRAG")]

\* lines 92-97: closed fist
ClosedFist(s) ==
    IF ~s.drag_started
    THEN [self |-> [s EXCEPT !.drag_started = TRUE], ret |-> Ev("START_DRAG")]
    ELSE [self |-> s, ret |-> Ev("DRAG_HOLD")]

\* mutant: the release by an open hand forgets to clear the flag
ReleaseHoldKeepsDrag(s) ==
    [self |-> s, ret |-> Ev("RELEASE_HOLD")]

\* lines 99-101
ReleaseHold(s) ==
    [self |-> [s EXCEPT !.drag_started = FALSE], ret |-> Ev("RELEASE_HOLD")]

\* mutant: the left click also wants the thumb curled
LeftClickRuleThumbCurled(s, finger_states, index_thumb_dist) ==
    /\ finger_states[2] /\ \A k \in {1, 3, 4, 5} : ~finger_states[k]
    /\ index_thumb_dist < PINCH_THRESHOLD
    /\ s.click_debounce_counter = 0

\* mutant: the left click does not look at the pinch distance
LeftClickRuleAnyDistance(s, finger_states, index_thumb_dist) ==
    /\ finger_states[2] /\ \A k \in 3..5 : ~finger_states[k]
    /\ s.click_debounce_counter = 0

\* lines 104-105: index up, middle, ring and pinky down, a pinch, no cooldown
LeftClickRule(s, finger_states, index_thumb_dist) ==
    /\ At(finger_states, 1) /\ ~AnyFrom(finger_states, 2)
    /\ index_thumb_dist < PINCH_THRESHOLD
    /\ s.click_debounce_counter = 0

\* mutant: the right click compares the distance with half the threshold
RightClickRuleHalfThreshold(s, finger_states, middle_thumb_dist) ==
    /\ finger_states[3] /\ \A k \in {2, 4, 5} : ~finger_states[k]
    /\ 2 * middle_thumb_dist < PINCH_THRESHOLD
    /\ s.click_debounce_counter = 0

\* mutant: the right click does not look at the click cooldown
RightClickRuleNoCooldown(s, finger_states, middle_thumb_dist) ==
    /\ finger_states[3] /\ \A k \in {2, 4, 5} : ~finger_states[k]
    /\ middle_thumb_dist < PINCH_THRESHOLD

\* lines 110-111: middle up, index, ring and pinky down, a pinch, no cooldown
RightClickRule(s, finger_states, middle_thumb_dist) ==
    /\ At(finger_states, 2) /\ ~At(finger_states, 1) /\ ~AnyFrom(finger_states, 3)
    /\ middle_thumb_dist < PINCH_THRESHOLD
    /\ s.click_debounce_counter = 0

\* mutant: the click cooldown is one frame short
ClickShortCooldown(s, name) ==
    [self |-> [s EXCEPT !.click_debounce_counter = DEBOUNCE_TIME - 1],
     ret  |-> Ev(name)]

\* lines 106-107 and 112-113
Click(s, name) ==
    [self |-> [s EXCEPT !.click_debounce_counter = DEBOUNCE_TIME], ret |-> Ev(name)]

\* mutant: the scroll branch refreshes last_hand_y before it returns
ScrollRefreshesHandY(s, landmarks, num_fingers_up) ==
    LET hand_y  == At(At(landmarks, 0), 1)
        y_delta == hand_y - s.last_hand_y
    IN  IF num_fingers_up = 5 /\ s.scroll_debounce_counter = 0
           /\ Abs(y_delta) > SCROLL_SENSITIVITY
        THEN [self |-> [s EXCEPT !.scroll_debounce_counter = DEBOUNCE_TIME_SHORT,
                                 !.last_hand_y = hand_y],
              ret  |-> IF y_delta < 0 THEN Scroll("UP") ELSE Scroll("DOWN")]
        ELSE [self |-> [s EXCEPT !.last_hand_y = hand_y],
              ret  |-> IF num_fingers_up >= 4 THEN Ev("CURSOR_MOVE") ELSE Ev("NONE")]

\* mutant: the cursor moves only with all five fingers up
CursorNeedsFive(s, landmarks, num_fingers_up) ==
    LET hand_y  == At(At(landmarks, 0), 1)
        y_delta == hand_y - s.last_hand_y
    IN  IF num_fingers_up = 5 /\ s.scroll_debounce_counter = 0
           /\ Abs(y_delta) > SCROLL_SENSITIVITY
        THEN [self |-> [s EXCEPT !.scroll_debounce_counter = DEBOUNCE_TIME_SHORT],
              ret  |-> IF y_delta < 0 THEN Scroll("UP") ELSE Scroll("DOWN")]
        ELSE [self |-> [s EXCEPT !.last_hand_y = hand_y],
              ret  |-> IF num_fingers_up >= 5 THEN Ev("CURSOR_MOVE") ELSE Ev("NONE")]

\* mutant: the scroll branch does not start its cooldown
ScrollNoCooldown(s, landmarks, num_fingers_up) ==
    LET hand_y  == At(At(landmarks, 0), 1)
        y_delta == hand_y - s.last_hand_y
    IN  IF num_fingers_up = 5 /\ s.scroll_debounce_counter = 0
           /\ Abs(y_delta) > SCROLL_SENSITIVITY
        THEN [self |-> s,
              ret  |-> IF y_delta < 0 THEN Scroll("UP") ELSE Scroll("DOWN")]
        ELSE [self |-> [s EXCEPT !.last_hand_y = hand_y],
              ret  |-> IF num_fingers_up >= 4 THEN Ev("CURSOR_MOVE") ELSE Ev("NONE")]

\* lines 129-147: 5. Scrolling, then 6. Open Hand
ScrollThenCursor(s, landmarks, num_fingers_up) ==
    LET hand_y  == At(At(landmarks, 0), 1)
        y_delta == hand_y - s.last_hand_y
    IN  IF num_fingers_up = 5 /\ s.scroll_debounce_counter = 0
           /\ Abs(y_delta) > SCROLL_SENSITIVITY
        THEN [self |-> [s EXCEPT !.scroll_debounce_counter = DEBOUNCE_TIME_SHORT],
              ret  |-> IF y_delta < 0 THEN Scroll("UP") ELSE Scroll("DOWN")]
        ELSE [self |-> [s EXCEPT !.last_hand_y = hand_y],
              ret  |-> IF num_fingers_up >= 4 THEN Ev("CURSOR_MOVE") ELSE Ev("NONE")]

\* lines 117-124: the zoom event, returned before line 125 is reached
ZoomEvent(s, zoom_change) ==
    [self |-> [s EXCEPT !.zoom_debounce_counter = DEBOUNCE_TIME_LONG],
     ret  |-> IF zoom_change > 0 THEN Ev("ZOOM_IN") ELSE Ev("ZOOM_OUT")]

\* lines 115-127: 4. Zoom Gesture, falling through to lines 129-147
ZoomThenRest(s, landmarks, finger_states, num_fingers_up, index_thumb_dist) ==
    LET zoom_change == index_thumb_dist - s.last_zoom_dist
    IN  IF num_fingers_up = 2 /\ At(finger_states, 0) /\ At(finger_states, 1)
        THEN IF s.zoom_debounce_counter = 0 /\ Abs(zoom_change) > ZOOM_SENSITIVITY
             THEN ZoomEvent(s, zoom_change)
             ELSE ScrollThenCursor([s EXCEPT !.last_zoom_dist = index_thumb_dist],
                                   landmarks, num_fingers_up)
        ELSE ScrollThenCursor([s EXCEPT !.last_zoom_dist = 0],
                              landmarks, num_fingers_up)

\* mutant: an open drag is released only by all five fingers
ClassifyReleaseNeedsFive(s, landmarks, finger_states, num_fingers_up, index_thumb_dist, middle_thumb_dist) ==
    IF num_fingers_up = 0
    THEN ClosedFist(s)
    ELSE IF num_fingers_up > 4 /\ s.drag_started
    THEN ReleaseHold(s)
    ELSE IF LeftClickRule(s, finger_states, index_thumb_dist)
    THEN Click(s, "LEFT_CLICK")
    ELSE IF RightClickRule(s, finger_states, middle_thumb_dist)
    THEN Click(s, "RIGHT_CLICK")
    ELSE ZoomThenRest(s, landmarks, finger_states, num_fingers_up, index_thumb_dist)

\* lines 91-147: the ordered rules, on the values lines 83-89 computed
ClassifySingleHand(s, landmarks, finger_states, num_fingers_up, index_thumb_dist, middle_thumb_dist) ==
    IF num_fingers_up = 0
    THEN ClosedFist(s)
    ELSE IF num_fingers_up > 3 /\ s.drag_started
    THEN ReleaseHold(s)
    ELSE IF LeftClickRule(s, finger_states, index_thumb_dist)
    THEN Click(s, "LEFT_CLICK")
    ELSE IF RightClickRule(s, finger_states, middle_thumb_dist)
    THEN Click(s, "RIGHT_CLICK")
    ELSE ZoomThenRest(s, landmarks, finger_states, num_fingers_up, index_thumb_dist)

\* lines 80-89: the first hand, its finger states and its two distances; a
\* landmark list shorter than an index read ends the call with IndexError,
\* before any of lines 91-147 ran
recognize_single_hand(s, hands) ==
    LET landmarks == At(hands, 0).landmarks
    IN  IF IndexError(landmarks)
        THEN [self |-> s, ret |-> Raised("IndexError")]
        ELSE ClassifySingleHand(s, landmarks,
                 get_finger_states(landmarks),
                 Sum(get_finger_states(landmarks)),
                 calculate_distance(At(landmarks, 4), At(landmarks, 8)),
                 calculate_distance(At(landmarks, 4), At(landmarks, 12)))

\* mutant: two hands are classified by the first hand alone
DispatchFirstHandOnly(s, hands) ==
    IF Len(hands) = 0
    THEN NoHands(s)
    ELSE recognize_single_hand(s, hands)

\* lines 69-147, on the recognizer s after line 67 decremented the counters
Dispatch(s, hands) ==
    IF Len(hands) = 0
    THEN NoHands(s)
    ELSE IF Len(hands) = 2 /\ s.desktop_switch_debounce_counter = 0
    THEN recognize_two_hand_gestures(s, hands)
    ELSE recognize_single_hand(s, hands)

\* lines 56-147
recognize(s0, hands) == Dispatch(update_debounce_counters(s0), hands)

(***************************************************************************)
(* self.config.  __init__ stores the object it is given and reads nothing  *)
(* from it; recognize reads an attribute when the line that names it runs, *)
(* and a read of an attribute the object lacks raises AttributeError.      *)
(***************************************************************************)
ConfigNames ==
    {"PINCH_THRESHOLD", "SCROLL_SENSITIVITY", "ZOOM_SENSITIVITY",
     "DEBOUNCE_TIME", "DEBOUNCE_TIME_SHORT", "DEBOUNCE_TIME_LONG"}

\* the config module main.py passes
Config ==
    [ PINCH_THRESHOLD     |-> PINCH_THRESHOLD,
      SCROLL_SENSITIVITY  |-> SCROLL_SENSITIVITY,
      ZOOM_SENSITIVITY    |-> ZOOM_SENSITIVITY,
      DEBOUNCE_TIME       |-> DEBOUNCE_TIME,
      DEBOUNCE_TIME_SHORT |-> DEBOUNCE_TIME_SHORT,
      DEBOUNCE_TIME_LONG  |-> DEBOUNCE_TIME_LONG ]

\* a config object that lacks one attribute
Without(name) == [n \in ConfigNames \ {name} |-> Config[n]]

\* lines 104-106 and 110-112: the attributes the two click rules read
ClickReads(s, finger_states, index_thumb_dist, middle_thumb_dist) ==
    IF At(finger_states, 1) /\ ~AnyFrom(finger_states, 2)
    THEN <<"PINCH_THRESHOLD">>
         \o (IF LeftClickRule(s, finger_states, index_thumb_dist)
             THEN <<"DEBOUNCE_TIME">> ELSE <<>>)
    ELSE IF At(finger_states, 2) /\ ~At(finger_states, 1) /\ ~AnyFrom(finger_states, 3)
    THEN <<"PINCH_THRESHOLD">>
         \o (IF RightClickRule(s, finger_states, middle_thumb_dist)
             THEN <<"DEBOUNCE_TIME">> ELSE <<>>)
    ELSE <<>>

\* lines 116-120: the attributes the zoom rule reads
ZoomReads(s, finger_states, num_fingers_up, index_thumb_dist) ==
    IF num_fingers_up = 2 /\ At(finger_states, 0) /\ At(finger_states, 1)
       /\ s.zoom_debounce_counter = 0
    THEN <<"ZOOM_SENSITIVITY">>
         \o (IF Abs(index_thumb_dist - s.last_zoom_dist) > ZOOM_SENSITIVITY
             THEN <<"DEBOUNCE_TIME_LONG">> ELSE <<>>)
    ELSE <<>>

\* lines 130-134: the attributes the scroll rule reads
ScrollReads(s, landmarks, num_fingers_up) ==
    IF num_fingers_up = 5 /\ s.scroll_debounce_counter = 0
    THEN <<"SCROLL_SENSITIVITY">>
         \o (IF Abs(At(At(landmarks, 0), 1) - s.last_hand_y) > SCROLL_SENSITIVITY
             THEN <<"DEBOUNCE_TIME_SHORT">> ELSE <<>>)
    ELSE <<>>

\* the attributes of self.config the call reads, in the order it reads them,
\* on the recognizer s after line 67
ClassifyReads(s, landmarks, finger_states, num_fingers_up, index_thumb_dist, middle_thumb_dist) ==
    LET click == ClickReads(s, finger_states, index_thumb_dist, middle_thumb_dist)
        zoom  == ZoomReads(s, finger_states, num_fingers_up, index_thumb_dist)
    IN  IF num_fingers_up = 0 \/ (num_fingers_up > 3 /\ s.drag_started)
        THEN <<>>
        ELSE IF Len(click) = 2
        THEN click
        ELSE IF Len(zoom) = 2
        THEN click \o zoom
        ELSE click \o zoom \o ScrollReads(s, landmarks, num_fingers_up)

ConfigReads(s, hands) ==
    IF Len(hands) = 0 \/ (Len(hands) = 2 /\ s.desktop_switch_debounce_counter = 0)
    THEN <<>>
    ELSE IF IndexError(At(hands, 0).landmarks)
    THEN <<>>
    ELSE LET landmarks == At(hands, 0).landmarks
         IN  ClassifyReads(s, landmarks,
                 get_finger_states(landmarks),
                 Sum(get_finger_states(landmarks)),
                 calculate_distance(At(landmarks, 4), At(landmarks, 8)),
                 calculate_distance(At(landmarks, 4), At(landmarks, 12)))

\* the call ends at the read of the missing attribute name.  Lines 105-120
\* are reached with nothing assigned since line 67; lines 133-134 are reached
\* with five fingers up, after line 127 reset last_zoom_dist.
RaiseAttributeError(s, name) ==
    [self |-> IF name \in {"SCROLL_SENSITIVITY", "DEBOUNCE_TIME_SHORT"}
              THEN [s EXCEPT !.last_zoom_dist = 0]
              ELSE s,
     ret  |-> Raised("AttributeError")]

\* lines 56-147 with the config object cfg
recognize_with_config(cfg, s0, hands) ==
    LET s       == update_debounce_counters(s0)
        reads   == ConfigReads(s, hands)
        missing == {k \in 1..Len(reads) : reads[k] \notin DOMAIN cfg}
    IN  IF ConfigNames \subseteq DOMAIN cfg \/ missing = {}
        THEN recognize(s0, hands)
        ELSE RaiseAttributeError(s, reads[CHOOSE k \in missing :
                                             \A j \in missing : k <= j])

(***************************************************************************)
(* The frames the landmark source hands to recognize (hand_tracking.py,    *)
(* HandTracker.find_hands): up to two hands, 21 landmarks [px, py, z]     *)
(* each.  A pose fixes the landmarks the recognizer reads; the others are  *)
(* zero, as in the mock hands of gesture_recognizer.py.                    *)
(***************************************************************************)
ThumbTip == <<100, 100, 0>>

\* x of landmark 3: equal to the tip's x, right of it, left of it
ThumbJointXs == {100, 110, 90}

\* index tips at distance 25 (a pinch) and 60 from the thumb tip
IndexTips == {<<109, 112, 20>>, <<136, 148, 0>>}

\* middle tips at distance 20 (a pinch) and 35 (no pinch) from the thumb tip
MiddleTips == {<<100, 120, 0>>, <<121, 128, 0>>}

\* y of the joints 6 and 10: not below any tip of the finger (curled), or below all
IndexJointYs == {112, 200}
MiddleJointYs == {120, 200}

\* ring and pinky: tips at y = 150, joints 14 and 18 together at one y
RingTip == <<160, 150, 0>>
PinkyTip == <<180, 150, 0>>
RingPinkyJointYs == {150, 200}

WristYs == {250, 300, 320}

\* the value of a coordinate in the poses that do not vary it
Default == [index_tip |-> <<136, 148, 0>>, middle_tip |-> <<121, 128, 0>>,
            wrist_y |-> 300]

Poses ==
    [ thumb_joint_x : ThumbJointXs,
      index_tip     : IndexTips,    index_joint_y  : IndexJointYs,
      middle_tip    : MiddleTips,   middle_joint_y : MiddleJointYs,
      ring_pinky_joint_y : RingPinkyJointYs,
      wrist_y       : WristYs ]

Landmarks(p) ==
    [k \in 1..21 |->
        CASE k - 1 = 0  -> <<0, p.wrist_y, 0>>
          [] k - 1 = 3  -> <<p.thumb_joint_x, 120, 0>>
          [] k - 1 = 4  -> ThumbTip
          [] k - 1 = 6  -> <<125, p.index_joint_y, 0>>
          [] k - 1 = 8  -> p.index_tip
          [] k - 1 = 10 -> <<145, p.middle_joint_y, 0>>
          [] k - 1 = 12 -> p.middle_tip
          [] k - 1 = 14 -> <<165, p.ring_pinky_joint_y, 0>>
          [] k - 1 = 16 -> RingTip
          [] k - 1 = 18 -> <<185, p.ring_pinky_joint_y, 0>>
          [] k - 1 = 20 -> PinkyTip
          [] OTHER      -> <<0, 0, 0>>]

Hand(p) == [landmarks |-> Landmarks(p), handedness |-> "Right"]

\* A coordinate is varied only in the poses where the recognizer's outcome can
\* depend on it: the index tip where index is the only finger of index..pinky
\* up, the middle tip where middle is, the wrist on a hand with all five
\* fingers up, and the thumb joint left of the tip on that hand only.
Varied(p) ==
    LET fs == get_finger_states(Landmarks(p))
    IN  /\ p.index_tip # Default.index_tip => At(fs, 1) /\ ~AnyFrom(fs, 2)
        /\ p.middle_tip # Default.middle_tip =>
               At(fs, 2) /\ ~At(fs, 1) /\ ~AnyFrom(fs, 3)
        /\ p.wrist_y # Default.wrist_y => \A k \in 0..4 : At(fs, k)
        /\ p.thumb_joint_x < ThumbTip[1] =>
               (\A k \in 1..4 : At(fs, k)) /\ p.wrist_y = Default.wrist_y

\* every distance the recognizer computes on the hand is a whole number
ExactHand(landmarks) ==
    /\ IsSquare(SquaredDistance(At(landmarks, 4), At(landmarks, 8)))
    /\ IsSquare(SquaredDistance(At(landmarks, 4), At(landmarks, 12)))

Hands == {Hand(p) : p \in {q \in Poses : Varied(q) /\ ExactHand(Landmarks(q))}}

Fist ==
    Hand([thumb_joint_x |-> 100, index_tip |-> Default.index_tip, index_joint_y |-> 112,
          middle_tip |-> Default.middle_tip, middle_joint_y |-> 120,
          ring_pinky_joint_y |-> 150, wrist_y |-> Default.wrist_y])

OpenHand ==
    Hand([thumb_joint_x |-> 110, index_tip |-> Default.index_tip, index_joint_y |-> 200,
          middle_tip |-> Default.middle_tip, middle_joint_y |-> 200,
          ring_pinky_joint_y |-> 200, wrist_y |-> Default.wrist_y])

\* a hand whose landmark list was cut short
Truncated(hand, n) == [hand EXCEPT !.landmarks = SubSeq(@, 1, n)]

MalformedLengths == {20}

Frames ==
    {<<>>}
    \cup {<<h>> : h \in Hands}
    \cup {<<Truncated(OpenHand, n)>> : n \in MalformedLengths}
    \cup {<<Fist, OpenHand>>}

(***************************************************************************)
(* The recognizer and its caller                                           *)
(***************************************************************************)
Counters(s) ==
    <<s.click_debounce_counter, s.scroll_debounce_counter, s.zoom_debounce_counter,
      s.tab_switch_debounce_counter, s.desktop_switch_debounce_counter>>

ClickEvents == {Ev("LEFT_CLICK"), Ev("RIGHT_CLICK")}

ScrollEvents == {Scroll("UP"), Scroll("DOWN")}

\* the left-click pinch condition on a frame
IsLeftPinch(hands) ==
    /\ Len(hands) = 1
    /\ ~IndexError(At(hands, 0).landmarks)
    /\ LET landmarks == At(hands, 0).landmarks
           fs        == get_finger_states(landmarks)
       IN  /\ At(fs, 1) /\ ~At(fs, 2) /\ ~At(fs, 3) /\ ~At(fs, 4)
           /\ calculate_distance(At(landmarks, 4), At(landmarks, 8)) < PINCH_THRESHOLD

\* line 83: the local finger_states of the call, <<>> when the call returned
\* at lines 69-78 or raised before line 83 had a value
FingerStatesComputed(s, hands) ==
    IF Len(hands) = 0 \/ (Len(hands) = 2 /\ s.desktop_switch_debounce_counter = 0)
    THEN <<>>
    ELSE IF IndexError(At(hands, 0).landmarks)
    THEN <<>>
    ELSE get_finger_states(At(hands, 0).landmarks)

\* GestureRecognizer(cfg): __init__ checks nothing, whatever cfg holds
Constructed(cfg) ==
    /\ self = InitSelf
    /\ config = cfg
    /\ hands_data = <<>>
    /\ ret = Ev("NO_CALL")
    /\ fingerStates = <<>>
    /\ dragOpen = FALSE
    /\ pinchRun = 0
    /\ emptyRun = 0
    /\ emptySnap = Counters(InitSelf)
    /\ clickAge = DEBOUNCE_TIME
    /\ clickGap = 0
    /\ scrollAge = DEBOUNCE_TIME_SHORT
    /\ scrollGap = 0

Init ==
    /\ self = InitSelf
    /\ config = Config
    /\ hands_data = <<>>
    /\ ret = Ev("NO_CALL")
    /\ fingerStates = <<>>
    /\ dragOpen = FALSE
    /\ pinchRun = 0
    /\ emptyRun = 0
    /\ emptySnap = Counters(InitSelf)
    /\ clickAge = DEBOUNCE_TIME
    /\ clickGap = 0
    /\ scrollAge = DEBOUNCE_TIME_SHORT
    /\ scrollGap = 0

\* main.py, lines 47-50: one call of recognize per captured frame
Recognize(hands) ==
    \E r \in {recognize_with_config(config, self, hands)} :
        /\ self' = r.self
        /\ config' = config
        /\ ret' = r.ret
        /\ hands_data' = hands
        /\ fingerStates' = FingerStatesComputed(update_debounce_counters(self), hands)
        \* history: whether the events returned so far leave a drag session
        \* open, a START_DRAG with no RELEASE_HOLD after it
        /\ dragOpen' = IF r.ret = Ev("START_DRAG") THEN TRUE
                       ELSE IF r.ret = Ev("RELEASE_HOLD") THEN FALSE
                       ELSE dragOpen
        \* history: the position in a run of left-click pinch frames that began
        \* with click_debounce_counter = 0
        /\ pinchRun' = IF ~IsLeftPinch(hands) THEN 0
                       ELSE IF pinchRun > 0 THEN Min(pinchRun + 1, MaxRun)
                       ELSE IF self.click_debounce_counter = 0 THEN 1 ELSE 0
        \* history: the length of the current run of empty frames and the
        \* counters before its first call
        /\ emptyRun' = IF Len(hands) # 0 THEN 0
                       ELSE IF emptyRun = 0 \/ emptyRun >= MaxEmptyRun THEN 1
                       ELSE emptyRun + 1
        /\ emptySnap' = IF Len(hands) # 0 THEN Counters(InitSelf)
                        ELSE IF emptyRun = 0 \/ emptyRun >= MaxEmptyRun
                        THEN Counters(self)
                        ELSE emptySnap
        \* history: the number of calls since the last call that returned a
        \* click, counted up to DEBOUNCE_TIME (DEBOUNCE_TIME: that many calls
        \* or more, or no click yet)
        /\ clickAge' = IF r.ret \in ClickEvents THEN 0
                       ELSE Min(clickAge + 1, DEBOUNCE_TIME)
        \* history: on a call that returned a click, the number of calls from
        \* the previous click to this one (DEBOUNCE_TIME + 1: more than
        \* DEBOUNCE_TIME, or no click before); 0 on every other call
        /\ clickGap' = IF r.ret \in ClickEvents THEN clickAge + 1 ELSE 0
        \* history: the same two counts for the calls that returned a SCROLL,
        \* up to DEBOUNCE_TIME_SHORT
        /\ scrollAge' = IF r.ret \in ScrollEvents THEN 0
                        ELSE Min(scrollAge + 1, DEBOUNCE_TIME_SHORT)
        /\ scrollGap' = IF r.ret \in ScrollEvents THEN scrollAge + 1 ELSE 0

Next == \E hands \in Frames : Recognize(hands)

Spec == Init /\ [][Next]_vars

\* a recognizer constructed with a config object that lacks one attribute
InitIncompleteConfig == \E name \in ConfigNames : Constructed(Without(name))

SpecIncompleteConfig == InitIncompleteConfig /\ [][Next]_vars

TypeOK ==
    /\ hands_data \in Frames
    /\ self.drag_started \in BOOLEAN
    /\ self.last_gesture = "NONE"

(***************************************************************************)
(* What the properties below read off a frame                              *)
(***************************************************************************)
\* a frame of one hand with all 21 landmarks: the single-hand classifier runs
SingleHand(hands) == Len(hands) = 1 /\ Len(At(hands, 0).landmarks) = 21

\* the primary hand has fewer than 21 landmarks
Malformed(hands) == Len(hands) >= 1 /\ Len(At(hands, 0).landmarks) < 21

Fingers(hands) == get_finger_states(At(hands, 0).landmarks)

\* exactly thumb and index are extended
ThumbIndexShape(hands) ==
    LET fs == Fingers(hands)
    IN  At(fs, 0) /\ At(fs, 1) /\ ~At(fs, 2) /\ ~At(fs, 3) /\ ~At(fs, 4)

AllFiveExtended(hands) == \A k \in 0..4 : At(Fingers(hands), k)

ThumbIndexDist(hands) ==
    calculate_distance(At(At(hands, 0).landmarks, 4), At(At(hands, 0).landmarks, 8))

WristY(hands) == At(At(At(hands, 0).landmarks, 0), 1)

Max(a, b) == IF a > b THEN a ELSE b

(***************************************************************************)
(* C1                                                                      *)
(***************************************************************************)
\* C1: in a run of consecutive left-click pinch frames that starts with
\* click_debounce_counter = 0, call 1 returns LEFT_CLICK, calls 2 to
\* DEBOUNCE_TIME (10) return neither click, and call DEBOUNCE_TIME + 1 (11)
\* returns LEFT_CLICK again.
C1_DebounceExclusion ==
    /\ pinchRun \in {1, DEBOUNCE_TIME + 1} => ret = Ev("LEFT_CLICK")
    /\ pinchRun \in 2..DEBOUNCE_TIME => ret \notin ClickEvents

\* the eleventh call of such a run has clicked again
C1_Witness ==
    /\ pinchRun = DEBOUNCE_TIME + 1
    /\ ret = Ev("LEFT_CLICK")
    /\ self.click_debounce_counter = DEBOUNCE_TIME

(***************************************************************************)
(* C2                                                                      *)
(***************************************************************************)
\* C2: the drag events form a prefix of (START_DRAG DRAG_HOLD* RELEASE_HOLD)*:
\* START_DRAG comes only with no session open, DRAG_HOLD and RELEASE_HOLD only
\* with one open; drag_started is true exactly while a session is open, rises
\* only on START_DRAG and falls only, and once, on RELEASE_HOLD.
C2_DragSessions ==
    [][ /\ self.drag_started = dragOpen
        /\ self'.drag_started = dragOpen'
        /\ ret' = Ev("START_DRAG") => ~dragOpen
        /\ ret' \in {Ev("DRAG_HOLD"), Ev("RELEASE_HOLD")} => dragOpen
        /\ (self.drag_started /\ ~self'.drag_started) <=> ret' = Ev("RELEASE_HOLD")
        /\ (~self.drag_started /\ self'.drag_started) <=> ret' = Ev("START_DRAG")
      ]_vars

\* a session was opened by a fist and has just been closed by an open hand
C2_Witness ==
    /\ ret = Ev("RELEASE_HOLD")
    /\ SingleHand(hands_data)
    /\ ~dragOpen /\ ~self.drag_started

(***************************************************************************)
(* C3                                                                      *)
(***************************************************************************)
\* C3: after every call that reaches the single-hand classifier, whichever
\* rule produced the event, last_zoom_dist is the thumb-index distance when
\* exactly thumb and index are extended and 0 otherwise, and last_hand_y is
\* the wrist y unless the call returned SCROLL.
C3_TrackingAlwaysCurrent ==
    [][ SingleHand(hands_data') =>
          /\ self'.last_zoom_dist =
                 IF ThumbIndexShape(hands_data') THEN ThumbIndexDist(hands_data')
                 ELSE 0
          /\ GestureOf(ret') # "SCROLL" => self'.last_hand_y = WristY(hands_data')
      ]_vars

(***************************************************************************)
(* C4                                                                      *)
(***************************************************************************)
\* the premise of C4: exactly thumb and index extended, no earlier rule
\* matched (the left click of line 104 does not ask for a curled thumb),
\* zoom_debounce_counter 0 after the decrement, and a change of the distance
\* beyond ZOOM_SENSITIVITY
ZoomTrigger(s, hands) ==
    /\ SingleHand(hands)
    /\ ThumbIndexShape(hands)
    /\ ~(ThumbIndexDist(hands) < PINCH_THRESHOLD
         /\ Decrement(s.click_debounce_counter) = 0)
    /\ Decrement(s.zoom_debounce_counter) = 0
    /\ Abs(ThumbIndexDist(hands) - s.last_zoom_dist) > ZOOM_SENSITIVITY

\* C4: on a zoom trigger the event is ZOOM_IN when the distance grew and
\* ZOOM_OUT otherwise, zoom_debounce_counter becomes DEBOUNCE_TIME_LONG, and
\* last_zoom_dist is updated to the distance.
C4_ZoomTrigger ==
    [][ ZoomTrigger(self, hands_data') =>
          /\ ret' = IF ThumbIndexDist(hands_data') > self.last_zoom_dist
                    THEN Ev("ZOOM_IN") ELSE Ev("ZOOM_OUT")
          /\ self'.zoom_debounce_counter = DEBOUNCE_TIME_LONG
          /\ self'.last_zoom_dist = ThumbIndexDist(hands_data')
      ]_vars

(***************************************************************************)
(* C5                                                                      *)
(***************************************************************************)
\* C5: a call with an empty frame and drag_started true beforehand returns
\* RELEASE_HOLD and leaves drag_started false.
C5_ZeroHandRelease ==
    [][ (Len(hands_data') = 0 /\ self.drag_started) =>
            (ret' = Ev("RELEASE_HOLD") /\ ~self'.drag_started)
      ]_vars

\* an empty frame has just released a drag
C5_Witness ==
    /\ Len(hands_data) = 0
    /\ ret = Ev("RELEASE_HOLD")
    /\ ~self.drag_started

(***************************************************************************)
(* C6                                                                      *)
(***************************************************************************)
\* C6: a call with an empty frame and drag_started false beforehand returns
\* NONE and changes nothing but the counters, each non-zero one by one down.
C6_ZeroHandIdle ==
    [][ (Len(hands_data') = 0 /\ ~self.drag_started) =>
          /\ ret' = Ev("NONE")
          /\ self'.drag_started = self.drag_started
          /\ self'.last_hand_y = self.last_hand_y
          /\ self'.last_zoom_dist = self.last_zoom_dist
          /\ self'.last_gesture = self.last_gesture
          /\ \A i \in 1..5 :
                Counters(self')[i] =
                    IF Counters(self)[i] # 0 THEN Counters(self)[i] - 1 ELSE 0
      ]_vars

\* an idle empty frame with tracking state and a running cooldown to preserve
C6_Witness ==
    /\ Len(hands_data) = 0
    /\ ret = Ev("NONE")
    /\ self.last_hand_y # 0
    /\ self.last_zoom_dist # 0
    /\ self.click_debounce_counter > 0

(***************************************************************************)
(* C7                                                                      *)
(***************************************************************************)
\* C7: across every call each of the five counters is >= 0 before and after,
\* and after the call it is never more than 1 below its value before.
C7_CounterInvariant ==
    [][ \A i \in 1..5 :
          /\ Counters(self)[i] >= 0
          /\ Counters(self')[i] >= 0
          /\ Counters(self')[i] >= Counters(self)[i] - 1
      ]_vars

\* three cooldowns are running at once
C7_Witness ==
    /\ self.click_debounce_counter \in 1..(DEBOUNCE_TIME - 1)
    /\ self.scroll_debounce_counter \in 1..(DEBOUNCE_TIME_SHORT - 1)
    /\ self.zoom_debounce_counter \in 1..(DEBOUNCE_TIME_LONG - 1)

(***************************************************************************)
(* C8                                                                      *)
(***************************************************************************)
\* C8: after N consecutive calls with an empty frame each counter that was c
\* before the first of them is max(c - N, 0).
C8_RepeatedDecrement ==
    emptyRun >= 1 =>
        \A i \in 1..5 : Counters(self)[i] = Max(emptySnap[i] - emptyRun, 0)

\* a run in which one counter reached the floor and stayed there while
\* another is still running down
C8_Witness ==
    /\ emptyRun >= 3
    /\ emptySnap[2] \in 1..(emptyRun - 1)
    /\ emptySnap[1] > emptyRun
    /\ self.scroll_debounce_counter = 0

(***************************************************************************)
(* C9                                                                      *)
(***************************************************************************)
\* C9: a call whose primary hand has fewer than 21 landmarks returns NONE and
\* leaves drag_started, last_hand_y and last_zoom_dist unchanged.
C9_MalformedAbsorbed ==
    [][ Malformed(hands_data') =>
          /\ ret' = Ev("NONE")
          /\ self'.drag_started = self.drag_started
          /\ self'.last_hand_y = self.last_hand_y
          /\ self'.last_zoom_dist = self.last_zoom_dist
      ]_vars

(***************************************************************************)
(* C10                                                                     *)
(***************************************************************************)
\* the premise of C10: all five fingers extended, no drag open,
\* scroll_debounce_counter 0 after the decrement, and a wrist that moved
\* beyond SCROLL_SENSITIVITY
ScrollTrigger(s, hands) ==
    /\ SingleHand(hands)
    /\ AllFiveExtended(hands)
    /\ ~s.drag_started
    /\ Decrement(s.scroll_debounce_counter) = 0
    /\ Abs(WristY(hands) - s.last_hand_y) > SCROLL_SENSITIVITY

\* C10: on a scroll trigger the event is SCROLL, UP when the wrist y is below
\* last_hand_y and DOWN otherwise, scroll_debounce_counter becomes
\* DEBOUNCE_TIME_SHORT and last_hand_y is left as it was.
C10_ScrollTrigger ==
    [][ ScrollTrigger(self, hands_data') =>
          /\ ret' = IF WristY(hands_data') < self.last_hand_y
                    THEN Scroll("UP") ELSE Scroll("DOWN")
          /\ self'.scroll_debounce_counter = DEBOUNCE_TIME_SHORT
          /\ self'.last_hand_y = self.last_hand_y
      ]_vars

\* the wrist went from 300 to 250 and the call scrolled up
C10_Witness ==
    /\ SingleHand(hands_data)
    /\ ret = Scroll("UP")
    /\ self.last_hand_y = 300
    /\ WristY(hands_data) = 250
    /\ self.scroll_debounce_counter = DEBOUNCE_TIME_SHORT

(***************************************************************************)
(* C11                                                                     *)
(***************************************************************************)
NumFingersUp(hands) == Sum(Fingers(hands))

\* C11: on a single-hand call with no finger extended the event is START_DRAG
\* and drag_started becomes true when it was false, and DRAG_HOLD with nothing
\* changed but the decremented counters when it was true; with more than 3
\* fingers extended and drag_started true the event is RELEASE_HOLD (not
\* SCROLL, not CURSOR_MOVE) and drag_started becomes false.
C11_DragSteps ==
    [][ SingleHand(hands_data') =>
          /\ (NumFingersUp(hands_data') = 0 /\ ~self.drag_started) =>
                 (ret' = Ev("START_DRAG") /\ self'.drag_started)
          /\ (NumFingersUp(hands_data') = 0 /\ self.drag_started) =>
                 /\ ret' = Ev("DRAG_HOLD")
                 /\ self'.drag_started
                 /\ self'.last_hand_y = self.last_hand_y
                 /\ self'.last_zoom_dist = self.last_zoom_dist
                 /\ self'.last_gesture = self.last_gesture
                 /\ \A i \in 1..5 :
                       Counters(self')[i] = Max(Counters(self)[i] - 1, 0)
          /\ (NumFingersUp(hands_data') > 3 /\ self.drag_started) =>
                 (ret' = Ev("RELEASE_HOLD") /\ ~self'.drag_started)
      ]_vars

\* an open hand with all five fingers up, a wrist far from last_hand_y and no
\* scroll cooldown has released the drag instead of scrolling
C11_Witness ==
    /\ SingleHand(hands_data)
    /\ AllFiveExtended(hands_data)
    /\ ret = Ev("RELEASE_HOLD")
    /\ ~self.drag_started
    /\ self.scroll_debounce_counter = 0
    /\ Abs(WristY(hands_data) - self.last_hand_y) > SCROLL_SENSITIVITY

(***************************************************************************)
(* C12                                                                     *)
(***************************************************************************)
\* index extended, middle, ring and pinky curled; the thumb is not looked at
IndexPinchShape(hands) ==
    LET fs == Fingers(hands)
    IN  At(fs, 1) /\ ~At(fs, 2) /\ ~At(fs, 3) /\ ~At(fs, 4)

\* C12: on a single-hand call where index is extended, middle, ring and pinky
\* are curled, the thumb-index distance is below PINCH_THRESHOLD and
\* click_debounce_counter is 0 after the decrement, the call returns
\* LEFT_CLICK and click_debounce_counter becomes DEBOUNCE_TIME.
C12_LeftClickOnPinch ==
    [][ ( /\ SingleHand(hands_data')
          /\ IndexPinchShape(hands_data')
          /\ ThumbIndexDist(hands_data') < PINCH_THRESHOLD
          /\ Max(self.click_debounce_counter - 1, 0) = 0 )
        => ( /\ ret' = Ev("LEFT_CLICK")
             /\ self'.click_debounce_counter = DEBOUNCE_TIME )
      ]_vars

\* a pinch at distance 25 with the thumb extended too has clicked while a drag
\* was open
C12_Witness ==
    /\ SingleHand(hands_data)
    /\ IndexPinchShape(hands_data)
    /\ At(Fingers(hands_data), 0)
    /\ ThumbIndexDist(hands_data) = 25
    /\ ret = Ev("LEFT_CLICK")
    /\ self.click_debounce_counter = DEBOUNCE_TIME
    /\ self.drag_started

(***************************************************************************)
(* C13                                                                     *)
(***************************************************************************)
ZoomEvents == {Ev("ZOOM_IN"), Ev("ZOOM_OUT")}

\* C13 as stated: whenever the call returns LEFT_CLICK the primary hand has
\* index extended and thumb, middle, ring and pinky not extended, and a frame
\* with exactly thumb and index extended never returns LEFT_CLICK.
C13_IndexOnlyExtended ==
    /\ ret = Ev("LEFT_CLICK") =>
           /\ SingleHand(hands_data)
           /\ IndexPinchShape(hands_data)
           /\ ~At(Fingers(hands_data), 0)
    /\ (SingleHand(hands_data) /\ ThumbIndexShape(hands_data)) =>
           ret # Ev("LEFT_CLICK")

\* C13 amended: whenever the call returns LEFT_CLICK the primary hand has
\* index extended and middle, ring and pinky not extended (the thumb may be
\* either), the thumb-index distance is below PINCH_THRESHOLD and
\* click_debounce_counter was 0 after the decrement; a frame with exactly
\* thumb and index extended that does not return LEFT_CLICK is handled by
\* the zoom rule: it returns a zoom event, or NONE with last_zoom_dist set to
\* the thumb-index distance.
C13_LeftClickShape ==
    [][ /\ ret' = Ev("LEFT_CLICK") =>
               /\ SingleHand(hands_data')
               /\ IndexPinchShape(hands_data')
               /\ ThumbIndexDist(hands_data') < PINCH_THRESHOLD
               /\ Max(self.click_debounce_counter - 1, 0) = 0
        /\ ( /\ SingleHand(hands_data')
             /\ ThumbIndexShape(hands_data')
             /\ ret' # Ev("LEFT_CLICK") ) =>
               \/ ret' \in ZoomEvents
               \/ /\ ret' = Ev("NONE")
                  /\ self'.last_zoom_dist = ThumbIndexDist(hands_data')
      ]_vars

\* a frame with exactly thumb and index extended has returned LEFT_CLICK
\* although the zoom rule had no cooldown and a distance change above
\* ZOOM_SENSITIVITY
C13_Witness ==
    /\ SingleHand(hands_data)
    /\ ThumbIndexShape(hands_data)
    /\ ret = Ev("LEFT_CLICK")
    /\ self.zoom_debounce_counter = 0
    /\ Abs(ThumbIndexDist(hands_data) - self.last_zoom_dist) > ZOOM_SENSITIVITY

(***************************************************************************)
(* C14                                                                     *)
(***************************************************************************)
\* middle extended, index, ring and pinky curled; the thumb is not looked at
MiddlePinchShape(hands) ==
    LET fs == Fingers(hands)
    IN  At(fs, 2) /\ ~At(fs, 1) /\ ~At(fs, 3) /\ ~At(fs, 4)

ThumbMiddleDist(hands) ==
    calculate_distance(At(At(hands, 0).landmarks, 4), At(At(hands, 0).landmarks, 12))

\* C14: on a single-hand call where middle is extended, index, ring and pinky
\* are curled, the thumb-middle distance is below PINCH_THRESHOLD and
\* click_debounce_counter is 0 after the decrement, the call returns
\* RIGHT_CLICK and click_debounce_counter becomes DEBOUNCE_TIME.
C14_RightClickOnPinch ==
    [][ ( /\ SingleHand(hands_data')
          /\ MiddlePinchShape(hands_data')
          /\ ThumbMiddleDist(hands_data') < PINCH_THRESHOLD
          /\ Max(self.click_debounce_counter - 1, 0) = 0 )
        => ( /\ ret' = Ev("RIGHT_CLICK")
             /\ self'.click_debounce_counter = DEBOUNCE_TIME )
      ]_vars

\* a middle-finger pinch has right-clicked
C14_Witness ==
    /\ SingleHand(hands_data)
    /\ MiddlePinchShape(hands_data)
    /\ ThumbMiddleDist(hands_data) < PINCH_THRESHOLD
    /\ ret = Ev("RIGHT_CLICK")
    /\ self.click_debounce_counter = DEBOUNCE_TIME

(***************************************************************************)
(* C15                                                                     *)
(***************************************************************************)
\* C15: every call with exactly two hands returns NONE, whatever the
\* recognizer state, an open drag included.
C15_TwoHandStub ==
    [][ Len(hands_data') = 2 =>
          /\ ret' = Ev("NONE")
          /\ self'.drag_started = self.drag_started
      ]_vars

\* two hands whose first is a fist have returned NONE with a drag open and
\* with the click cooldown running
C15_Witness ==
    /\ Len(hands_data) = 2
    /\ NumFingersUp(hands_data) = 0
    /\ ret = Ev("NONE")
    /\ self.drag_started
    /\ self.click_debounce_counter > 0

(***************************************************************************)
(* C16                                                                     *)
(***************************************************************************)
\* the events of the rules before the open-hand rule
EarlierRuleEvents ==
    {Ev("START_DRAG"), Ev("DRAG_HOLD"), Ev("RELEASE_HOLD")}
    \cup ClickEvents \cup ZoomEvents \cup ScrollEvents

\* C16: on a single-hand call with drag_started false, exactly 4 fingers
\* extended returns CURSOR_MOVE, 5 fingers extended return SCROLL or
\* CURSOR_MOVE, and with fewer than 4 fingers extended a call that returns
\* none of the events of the earlier rules returns NONE.
C16_CursorFallthrough ==
    [][ (SingleHand(hands_data') /\ ~self.drag_started) =>
          /\ NumFingersUp(hands_data') = 4 => ret' = Ev("CURSOR_MOVE")
          /\ NumFingersUp(hands_data') = 5 =>
                 ret' \in ScrollEvents \cup {Ev("CURSOR_MOVE")}
          /\ (NumFingersUp(hands_data') < 4 /\ ret' \notin EarlierRuleEvents) =>
                 ret' = Ev("NONE")
      ]_vars

\* four fingers up with no drag open have moved the cursor
C16_Witness ==
    /\ SingleHand(hands_data)
    /\ NumFingersUp(hands_data) = 4
    /\ ret = Ev("CURSOR_MOVE")
    /\ ~dragOpen

(***************************************************************************)
(* C17                                                                     *)
(***************************************************************************)
\* the y coordinate of landmark i of the primary hand
LandmarkY(hands, i) == At(At(At(hands, 0).landmarks, i), 1)

\* the x coordinate of landmark i of the primary hand
LandmarkX(hands, i) == At(At(At(hands, 0).landmarks, i), 0)

\* C17: for a hand of 21 landmarks _get_finger_states returns exactly 5
\* booleans, thumb first, then index, middle, ring and pinky, each of these
\* four true iff its tip y (landmarks 8, 12, 16, 20) is strictly less than its
\* joint y (landmarks 6, 10, 14, 18).
C17_FingerStates ==
    SingleHand(hands_data) =>
        /\ DOMAIN fingerStates = 1..5
        /\ \A k \in 1..5 : fingerStates[k] \in BOOLEAN
        /\ fingerStates[1] = (IF LandmarkX(hands_data, 4) > LandmarkX(hands_data, 3)
                               THEN LandmarkX(hands_data, 4) > LandmarkX(hands_data, 3)
                               ELSE LandmarkX(hands_data, 4) < LandmarkX(hands_data, 3))
        /\ fingerStates[2] = (LandmarkY(hands_data, 8) < LandmarkY(hands_data, 6))
        /\ fingerStates[3] = (LandmarkY(hands_data, 12) < LandmarkY(hands_data, 10))
        /\ fingerStates[4] = (LandmarkY(hands_data, 16) < LandmarkY(hands_data, 14))
        /\ fingerStates[5] = (LandmarkY(hands_data, 20) < LandmarkY(hands_data, 18))

\* a hand whose ring tip is level with its joint has been read as ring
\* curled, with index extended and middle curled
C17_Witness ==
    /\ SingleHand(hands_data)
    /\ LandmarkY(hands_data, 16) = LandmarkY(hands_data, 14)
    /\ fingerStates[4] = FALSE
    /\ fingerStates[2] = TRUE
    /\ fingerStates[3] = FALSE

(***************************************************************************)
(* C18                                                                     *)
(***************************************************************************)
\* C18: a recognizer whose config lacks a threshold or debounce value is never
\* constructed, so no call of recognize runs with an incomplete config.
C18_MissingConfigFatal ==
    ~(ConfigNames \subseteq DOMAIN config) => ret = Ev("NO_CALL")

(***************************************************************************)
(* C19                                                                     *)
(***************************************************************************)
\* C19: any two calls that return a click, LEFT_CLICK or RIGHT_CLICK in any
\* combination, are at least DEBOUNCE_TIME calls apart, and
\* click_debounce_counter never exceeds DEBOUNCE_TIME.
C19_SharedClickCooldown ==
    /\ ret \in ClickEvents => clickGap >= DEBOUNCE_TIME
    /\ self.click_debounce_counter <= DEBOUNCE_TIME

\* a right click has come exactly DEBOUNCE_TIME calls after the click before
\* it
C19_Witness ==
    /\ ret = Ev("RIGHT_CLICK")
    /\ clickGap = DEBOUNCE_TIME
    /\ self.click_debounce_counter = DEBOUNCE_TIME

(***************************************************************************)
(* C20                                                                     *)
(***************************************************************************)
\* C20: any two calls that return a SCROLL are at least DEBOUNCE_TIME_SHORT
\* calls apart; in particular the call right after one that returned a SCROLL
\* does not return a SCROLL, although the scrolling call left last_hand_y as
\* it was.
C20_ScrollCooldown ==
    [][ /\ ret' \in ScrollEvents => scrollGap' >= DEBOUNCE_TIME_SHORT
        /\ ret \in ScrollEvents => ret' \notin ScrollEvents
      ]_vars

\* the call right after a SCROLL showed an open hand again: the cooldown held
\* the scroll rule back, the cursor moved and last_hand_y was refreshed
C20_Witness ==
    /\ scrollAge = 1
    /\ SingleHand(hands_data)
    /\ AllFiveExtended(hands_data)
    /\ ret = Ev("CURSOR_MOVE")
    /\ self.last_hand_y = WristY(hands_data)
    /\ self.scroll_debounce_counter = DEBOUNCE_TIME_SHORT - 1

\* a SCROLL has come exactly DEBOUNCE_TIME_SHORT calls after the one before
C20_SecondScroll ==
    /\ ret \in ScrollEvents
    /\ scrollGap = DEBOUNCE_TIME_SHORT

(***************************************************************************)
(* C21                                                                     *)
(***************************************************************************)
\* C21: whenever a call returns SCROLL, the call before it saw a primary hand
\* and the wrist y of the two primary hands differ by more than
\* SCROLL_SENSITIVITY; the first call of a recognizer, and a call after a
\* frame of no hands, never returns SCROLL.
C21_ScrollIsMotion ==
    [][ ret' \in ScrollEvents =>
          /\ Len(hands_data) >= 1
          /\ Abs(WristY(hands_data') - WristY(hands_data)) > SCROLL_SENSITIVITY
      ]_vars

(***************************************************************************)
(* C22                                                                     *)
(***************************************************************************)
\* the primary hand of the frame has all 21 landmarks
PrimaryHand(hands) == Len(hands) >= 1 /\ Len(At(hands, 0).landmarks) = 21

\* C22: whenever a call returns ZOOM_IN or ZOOM_OUT, the call before it saw
\* exactly thumb and index extended on its primary hand and the thumb-index
\* distances of the two calls differ by more than ZOOM_SENSITIVITY; entering
\* the pose returns no zoom event.
C22_ZoomIsChange ==
    [][ ret' \in ZoomEvents =>
          /\ PrimaryHand(hands_data)
          /\ ThumbIndexShape(hands_data)
          /\ Abs(ThumbIndexDist(hands_data') - ThumbIndexDist(hands_data))
                 > ZOOM_SENSITIVITY
      ]_vars

(***************************************************************************)
(* C23                                                                     *)
(***************************************************************************)
\* C23: _get_finger_states reports the thumb extended iff the x of the thumb
\* tip (landmark 4) differs from the x of landmark 3, curled only when the
\* two are equal; so a hand has 0 fingers extended, and a call returns
\* START_DRAG, only if the two x are equal.
C23_ThumbCollapses ==
    /\ SingleHand(hands_data) =>
           fingerStates[1] = (LandmarkX(hands_data, 4) # LandmarkX(hands_data, 3))
    /\ (SingleHand(hands_data) /\ NumFingersUp(hands_data) = 0) =>
           LandmarkX(hands_data, 4) = LandmarkX(hands_data, 3)
    /\ ret = Ev("START_DRAG") =>
           /\ SingleHand(hands_data)
           /\ LandmarkX(hands_data, 4) = LandmarkX(hands_data, 3)

\* a hand with its four fingers curled and its thumb tip left of landmark 3
\* has been read as thumb extended, and was no fist: no drag started
C23_Witness ==
    /\ SingleHand(hands_data)
    /\ LandmarkX(hands_data, 4) < LandmarkX(hands_data, 3)
    /\ fingerStates[1] = TRUE
    /\ \A k \in 2..5 : fingerStates[k] = FALSE
    /\ ret = Ev("NONE")
    /\ ~dragOpen

(***************************************************************************)
(* C24                                                                     *)
(***************************************************************************)
\* the call returned an event, it did not raise
Returned(r) == "gesture" \in DOMAIN r

\* C24 as stated: every call made with drag_started true returns DRAG_HOLD,
\* RELEASE_HOLD or NONE; no click, zoom, scroll or cursor event comes between
\* a START_DRAG and its RELEASE_HOLD.
C24_DragExclusive ==
    [][ (self.drag_started /\ Returned(ret')) =>
          ret' \in {Ev("DRAG_HOLD"), Ev("RELEASE_HOLD"), Ev("NONE")}
      ]_vars

\* C24 amended: every call made with drag_started true that returns an event
\* returns DRAG_HOLD, RELEASE_HOLD, NONE, a click or a zoom event, the click
\* and zoom events only from a hand with one to three fingers extended, which
\* leave the drag open; SCROLL, CURSOR_MOVE and START_DRAG are never returned
\* while the drag is open.
C24_DragExcludesScrollAndCursor ==
    [][ (self.drag_started /\ Returned(ret')) =>
          /\ ret' \in {Ev("DRAG_HOLD"), Ev("RELEASE_HOLD"), Ev("NONE")}
                      \cup ClickEvents \cup ZoomEvents
          /\ ret' \in ClickEvents \cup ZoomEvents =>
                 /\ SingleHand(hands_data')
                 /\ NumFingersUp(hands_data') \in 1..3
                 /\ self'.drag_started
      ]_vars

\* a zoom event has been returned with a drag open, and the drag stays open
C24_Witness ==
    /\ ret \in ZoomEvents
    /\ self.drag_started
    /\ dragOpen

(***************************************************************************)
(* C25                                                                     *)
(***************************************************************************)
\* C25: a call with exactly two hands leaves drag_started, last_hand_y and
\* last_zoom_dist as they were, an open drag staying open, and changes
\* nothing but the counters, each non-zero one decremented by 1.
C25_TwoHandsOnlyCounters ==
    [][ Len(hands_data') = 2 =>
          /\ self'.drag_started = self.drag_started
          /\ self'.last_hand_y = self.last_hand_y
          /\ self'.last_zoom_dist = self.last_zoom_dist
          /\ self'.last_gesture = self.last_gesture
          /\ \A i \in 1..5 :
                Counters(self')[i] = Max(Counters(self)[i] - 1, 0)
          /\ dragOpen' = dragOpen
      ]_vars

\* two hands were seen with a drag open, both tracking values set and the
\* zoom and scroll cooldowns running
C25_Witness ==
    /\ Len(hands_data) = 2
    /\ self.drag_started
    /\ self.last_hand_y # 0
    /\ self.last_zoom_dist # 0
    /\ self.zoom_debounce_counter > 0
    /\ self.scroll_debounce_counter > 0

(***************************************************************************)
(* C26                                                                     *)
(***************************************************************************)
\* C26: tab_switch_debounce_counter and desktop_switch_debounce_counter are 0
\* in every reachable state, no call returns SWITCH_TABS or SWITCH_DESKTOPS,
\* and no call with two hands reaches the single-hand classifier (line 83
\* computes no finger states for it).
C26_SwitchesDead ==
    /\ self.tab_switch_debounce_counter = 0
    /\ self.desktop_switch_debounce_counter = 0
    /\ Returned(ret) => ret.gesture \notin {"SWITCH_TABS", "SWITCH_DESKTOPS"}
    /\ Len(hands_data) = 2 => fingerStates = <<>>

\* a frame of two hands, seen while the click cooldown was running and no
\* drag was open, has not reached the single-hand classifier
C26_Witness ==
    /\ Len(hands_data) = 2
    /\ fingerStates = <<>>
    /\ self.desktop_switch_debounce_counter = 0
    /\ self.click_debounce_counter > 0
    /\ ~self.drag_started

====
